---- MODULE Spec2Model ----
(***************************************************************************)
(* Model of diff_drive_controller::VelocityLimiter (velocity_limiter.hpp,  *)
(* velocity_limiter.cpp, the Config-based revision).                        *)
(*                                                                         *)
(* A C++ float is modelled as an exact rational <<n, d>> in lowest terms   *)
(* with d > 0; the result of a division by zero is the non-finite value    *)
(* <<s, 0>> (s = 1: +inf, s = -1: -inf, s = 0: NaN).  Rounding is not      *)
(* modelled: every statement below is about exact arithmetic.              *)
(***************************************************************************)
EXTENDS Integers, Sequences, FiniteSets, TLC

VARIABLES
    wheel_separation,         \* float _wheel_separation
    vel_x_max,                \* float _vel_x_max
    vel_th_max,               \* float _vel_th_max
    inertia,                  \* float _inertia
    f_wheel_max,              \* float _f_wheel_max
    f_wheel_min,              \* float _f_wheel_min
    has_velocity_limits,      \* bool _has_velocity_limits
    has_acceleration_limits,  \* bool _has_acceleration_limits
    config,                   \* the Config handed to the last init call
    init_ret,                 \* what the last init call returned ("none" before)
    vel_cmd_req,              \* the caller's requested command
    vel_cmd_prev,             \* the caller's previous command
    dt,                       \* the caller's cycle duration
    vel_cmd,                  \* the caller's command object, mutated in place by limit
    called,                   \* which operation last wrote vel_cmd ("none" before)
    asserts_ok,               \* no assert of clip failed in the last call
    locals,                   \* the locals of the last limitAcc run (ran = FALSE if none)
    ds_in,                    \* arguments of a direct downscaleBoth call
    ds_out,                   \* its results
    cycles                    \* closed loop: number of cycles run so far

vars == <<wheel_separation, vel_x_max, vel_th_max, inertia, f_wheel_max, f_wheel_min,
          has_velocity_limits, has_acceleration_limits, config, init_ret,
          vel_cmd_req, vel_cmd_prev, dt, vel_cmd, called, asserts_ok, locals,
          ds_in, ds_out, cycles>>

stored == <<wheel_separation, vel_x_max, vel_th_max, inertia, f_wheel_max, f_wheel_min,
            has_velocity_limits, has_acceleration_limits>>

(***************************************************************************)
(* float arithmetic, exact                                                 *)
(*                                                                         *)
(* Bind(e, F) is F(e) with e evaluated once: TLC re-evaluates a LET name or *)
(* an operator argument at every use when it evaluates ENABLED, so each     *)
(* intermediate result below is bound this way instead of by LET.           *)
(***************************************************************************)
Bind(e, F(_)) == CHOOSE r \in {F(x) : x \in {e}} : TRUE

AbsInt(n) == IF n < 0 THEN -n ELSE n

SignInt(n) == IF n > 0 THEN 1 ELSE IF n < 0 THEN -1 ELSE 0

RECURSIVE Gcd(_, _)
Gcd(a, b) == IF b = 0 THEN a ELSE Bind(a % b, LAMBDA m : Gcd(b, m))

\* lowest terms, positive denominator; a zero denominator is a non-finite float
NormInt(n, d) ==
    IF d = 0 THEN <<SignInt(n), 0>>
    ELSE Bind(Gcd(AbsInt(n), AbsInt(d)), LAMBDA g :
         IF d < 0 THEN <<(-n) \div g, (-d) \div g>> ELSE <<n \div g, d \div g>>)

Norm(n, d) == Bind(n, LAMBDA nv : Bind(d, LAMBDA dv : NormInt(nv, dv)))

F(n) == <<n, 1>>

Zero == F(0)

Half == <<1, 2>>

IsFinite(a) == a[2] # 0

\* sums, products and comparisons go through the gcd of the denominators, so that
\* no intermediate integer is larger than the result needs
AddFinite(x, y) ==
    Bind(Gcd(x[2], y[2]), LAMBDA g :
        Norm(x[1] * (y[2] \div g) + y[1] * (x[2] \div g), (x[2] \div g) * y[2]))

Add(a, b) ==
    Bind(a, LAMBDA x : Bind(b, LAMBDA y :
        IF x[2] # 0 /\ y[2] # 0 THEN AddFinite(x, y)
        ELSE IF x[2] = 0 /\ y[2] = 0 THEN (IF x = y THEN x ELSE <<0, 0>>)
        ELSE IF x[2] = 0 THEN x ELSE y))

Neg(a) == Bind(a, LAMBDA x : <<-x[1], x[2]>>)

Sub(a, b) == Add(a, Neg(b))

MulFinite(x, y) ==
    Bind(Gcd(AbsInt(x[1]), y[2]), LAMBDA g1 :
    Bind(Gcd(AbsInt(y[1]), x[2]), LAMBDA g2 :
        <<(x[1] \div g1) * (y[1] \div g2), (x[2] \div g2) * (y[2] \div g1)>>))

Mul(a, b) ==
    Bind(a, LAMBDA x : Bind(b, LAMBDA y :
        IF x[2] # 0 /\ y[2] # 0 THEN MulFinite(x, y)
        ELSE <<SignInt(x[1]) * SignInt(y[1]), 0>>))

\* 1 / y; 1 / 0 is +inf
Recip(y) ==
    IF y[1] = 0 THEN <<SignInt(y[2]), 0>>
    ELSE IF y[2] = 0 THEN <<0, 1>>
    ELSE IF y[1] < 0 THEN <<-y[2], -y[1]>> ELSE <<y[2], y[1]>>

Div(a, b) == Bind(b, LAMBDA y : Mul(a, Recip(y)))

\* the sign of x - y for finite x and y
CmpFinite(x, y) ==
    Bind(Gcd(x[2], y[2]), LAMBDA g :
        SignInt(x[1] * (y[2] \div g) - y[1] * (x[2] \div g)))

Cmp(a, b) ==
    Bind(a, LAMBDA x : Bind(b, LAMBDA y :
        IF x[2] # 0 /\ y[2] # 0 THEN CmpFinite(x, y)
        ELSE IF x = <<0, 0>> \/ y = <<0, 0>> THEN 2
        ELSE IF x[2] = 0 /\ y[2] = 0 THEN SignInt(x[1] - y[1])
        ELSE IF x[2] = 0 THEN x[1] ELSE -y[1]))

Lt(a, b) == Cmp(a, b) = -1

Le(a, b) == Cmp(a, b) \in {-1, 0}

Gt(a, b) == Lt(b, a)

Ge(a, b) == Le(b, a)

Abs(a) == Bind(a, LAMBDA x : <<AbsInt(x[1]), x[2]>>)

Vector(x, th) == [x |-> x, th |-> th]

(***************************************************************************)
(* VelocityLimiter: the private helpers                                    *)
(***************************************************************************)
mass == F(1)

\* float clip(float& val, min, max): the value left in val, the scale returned,
\* and whether the assert on the branch taken held
clip(val, min, max) ==
    IF Gt(val, max)
    THEN [val |-> max, scale |-> Div(max, val), ok |-> Gt(max, Zero)]
    ELSE IF Lt(val, min)
    THEN [val |-> min, scale |-> Div(min, val), ok |-> Lt(min, Zero)]
    ELSE [val |-> val, scale |-> F(1), ok |-> TRUE]

\* downscaleBoth clamping each value on its own, the scales dropped
downscaleBothIndependent(v1, v1_min, v1_max, v2, v2_min, v2_max) ==
    Bind(clip(v1, v1_min, v1_max), LAMBDA c1 :
    Bind(clip(v2, v2_min, v2_max), LAMBDA c2 :
        [v1 |-> c1.val, v2 |-> c2.val, ok |-> c1.ok /\ c2.ok]))

\* downscaleBoth without the second scale applied back to v1
downscaleBothNoBackscale(v1, v1_min, v1_max, v2, v2_min, v2_max) ==
    Bind(clip(v1, v1_min, v1_max), LAMBDA c1 :
    Bind(Mul(v2, c1.scale), LAMBDA v2_scaled :
    Bind(clip(v2_scaled, v2_min, v2_max), LAMBDA c2 :
        [v1 |-> c1.val, v2 |-> c2.val, ok |-> c1.ok /\ c2.ok])))

downscaleBoth(v1, v1_min, v1_max, v2, v2_min, v2_max) ==
    Bind(clip(v1, v1_min, v1_max), LAMBDA c1 :
    Bind(Mul(v2, c1.scale), LAMBDA v2_scaled :
    Bind(clip(v2_scaled, v2_min, v2_max), LAMBDA c2 :
        [v1 |-> Mul(c1.val, c2.scale), v2 |-> c2.val, ok |-> c1.ok /\ c2.ok])))

downscaleBoth2(v1, v2, min, max) == downscaleBoth(v1, min, max, v2, min, max)

\* wheel speeds of a body command
WheelLeft(v) == Sub(v.x, Mul(Mul(v.th, wheel_separation), Half))

WheelRight(v) == Add(v.x, Mul(Mul(v.th, wheel_separation), Half))

\* limitVel with the wheel-speed stage left out
limitVelCapsOnly(v) ==
    Bind(downscaleBoth(v.x, Neg(vel_x_max), vel_x_max, v.th, Neg(vel_th_max), vel_th_max),
         LAMBDA d1 : [cmd |-> Vector(d1.v1, d1.v2), ok |-> d1.ok])

limitVel(v) ==
    Bind(downscaleBoth(v.x, Neg(vel_x_max), vel_x_max, v.th, Neg(vel_th_max), vel_th_max),
         LAMBDA d1 :
    Bind(Vector(d1.v1, d1.v2), LAMBDA c :
    Bind(WheelLeft(c), LAMBDA v_left :
    Bind(WheelRight(c), LAMBDA v_right :
    Bind(downscaleBoth2(v_left, v_right, Neg(vel_x_max), vel_x_max), LAMBDA d2 :
        [cmd |-> Vector(Mul(Half, Add(d2.v1, d2.v2)),
                        Div(Sub(d2.v2, d2.v1), wheel_separation)),
         ok  |-> d1.ok /\ d2.ok])))))

\* per-wheel forces of an acceleration
ForceLeft(acc) ==
    Sub(Mul(Mul(Half, mass), acc.x), Div(Mul(inertia, acc.th), wheel_separation))

ForceRight(acc) ==
    Add(Mul(Mul(Half, mass), acc.x), Div(Mul(inertia, acc.th), wheel_separation))

Accel(v, prev, t) == Vector(Div(Sub(v.x, prev.x), t), Div(Sub(v.th, prev.th), t))

\* limitAcc did not run
NoLocals ==
    [f_left |-> Zero, f_right |-> Zero, v_left_prev |-> Zero, v_right_prev |-> Zero,
     left_acc |-> FALSE, right_acc |-> FALSE, f_left_mag |-> Zero, f_right_mag |-> Zero,
     target |-> Vector(Zero, Zero), ran |-> FALSE]

\* the locals of limitAcc once the forces, the previous wheel speeds and the
\* classification of each wheel are known
Saturation(f_left, f_right, v_left_prev, v_right_prev, left_acc, right_acc, v) ==
    [f_left |-> f_left, f_right |-> f_right,
     v_left_prev |-> v_left_prev, v_right_prev |-> v_right_prev,
     left_acc |-> left_acc, right_acc |-> right_acc,
     f_left_mag  |-> IF left_acc THEN f_wheel_max ELSE Neg(f_wheel_min),
     f_right_mag |-> IF right_acc THEN f_wheel_max ELSE Neg(f_wheel_min),
     target |-> v, ran |-> TRUE]

\* limitAcc with the braking bound forgotten: both wheels always saturate at f_wheel_max
limitAccLocalsNoBrake(v, prev, t) ==
    Bind(Accel(v, prev, t), LAMBDA acc :
    Bind(ForceLeft(acc), LAMBDA f_left :
    Bind(ForceRight(acc), LAMBDA f_right :
    Bind(WheelLeft(prev), LAMBDA v_left_prev :
    Bind(WheelRight(prev), LAMBDA v_right_prev :
        [f_left |-> f_left, f_right |-> f_right,
         v_left_prev |-> v_left_prev, v_right_prev |-> v_right_prev,
         left_acc |-> Ge(Mul(f_left, v_left_prev), Zero),
         right_acc |-> Ge(Mul(f_right, v_right_prev), Zero),
         f_left_mag  |-> f_wheel_max,
         f_right_mag |-> f_wheel_max,
         target |-> v, ran |-> TRUE])))))

\* limitAcc classifying with > instead of >=
limitAccLocalsStrict(v, prev, t) ==
    Bind(Accel(v, prev, t), LAMBDA acc :
    Bind(ForceLeft(acc), LAMBDA f_left :
    Bind(ForceRight(acc), LAMBDA f_right :
    Bind(WheelLeft(prev), LAMBDA v_left_prev :
    Bind(WheelRight(prev), LAMBDA v_right_prev :
    Bind(Gt(Mul(f_left, v_left_prev), Zero), LAMBDA left_acc :
    Bind(Gt(Mul(f_right, v_right_prev), Zero), LAMBDA right_acc :
        Saturation(f_left, f_right, v_left_prev, v_right_prev, left_acc, right_acc, v))))))))

\* the locals of limitAcc up to the saturation magnitudes
limitAccLocals(v, prev, t) ==
    Bind(Accel(v, prev, t), LAMBDA acc :
    Bind(ForceLeft(acc), LAMBDA f_left :
    Bind(ForceRight(acc), LAMBDA f_right :
    Bind(WheelLeft(prev), LAMBDA v_left_prev :
    Bind(WheelRight(prev), LAMBDA v_right_prev :
    Bind(Ge(Mul(f_left, v_left_prev), Zero), LAMBDA left_acc :
    Bind(Ge(Mul(f_right, v_right_prev), Zero), LAMBDA right_acc :
        Saturation(f_left, f_right, v_left_prev, v_right_prev, left_acc, right_acc, v))))))))

limitAcc(v, prev, t) ==
    Bind(limitAccLocals(v, prev, t), LAMBDA l :
    Bind(downscaleBoth(l.f_left, Neg(l.f_left_mag), l.f_left_mag,
                       l.f_right, Neg(l.f_right_mag), l.f_right_mag), LAMBDA d :
    Bind(Mul(Div(F(1), mass), Add(d.v1, d.v2)), LAMBDA acc_x :
    Bind(Mul(Div(Mul(Half, wheel_separation), inertia), Sub(d.v2, d.v1)), LAMBDA acc_th :
        [cmd |-> Vector(Add(prev.x, Mul(acc_x, t)), Add(prev.th, Mul(acc_th, t))),
         ok  |-> d.ok,
         locals |-> l]))))

\* limit's velocity step: if (_has_velocity_limits) limitVel(vel_cmd)
VelStep(v) == IF has_velocity_limits THEN limitVel(v) ELSE [cmd |-> v, ok |-> TRUE]

\* limit's acceleration step on the result a of the velocity step
AccStep(a, prev, t) ==
    IF has_acceleration_limits
    THEN Bind(limitAcc(a.cmd, prev, t), LAMBDA b :
             [cmd |-> b.cmd, ok |-> a.ok /\ b.ok, locals |-> b.locals])
    ELSE [cmd |-> a.cmd, ok |-> a.ok, locals |-> NoLocals]

\* limit without the emergency-stop return
limitNoStop(v, prev, t) == Bind(VelStep(v), LAMBDA a : AccStep(a, prev, t))

\* limit handing limitAcc the command as requested, limitVel's result dropped
limitAccOnRequest(v, prev, t) ==
    IF v.x = Zero /\ v.th = Zero
    THEN [cmd |-> v, ok |-> TRUE, locals |-> NoLocals]
    ELSE Bind(VelStep(v), LAMBDA a :
             AccStep([cmd |-> IF has_acceleration_limits THEN v ELSE a.cmd, ok |-> a.ok],
                     prev, t))

\* void limit(Vector& vel_cmd, const Vector& vel_cmd_prev, float dt) const
limit(v, prev, t) ==
    IF v.x = Zero /\ v.th = Zero
    THEN [cmd |-> v, ok |-> TRUE, locals |-> NoLocals]
    ELSE Bind(VelStep(v), LAMBDA a : AccStep(a, prev, t))

(***************************************************************************)
(* VelocityLimiter: construction and init                                  *)
(***************************************************************************)
Config(ws, hv, ha, vx, vth, axmax, axmin, athmax) ==
    [wheel_separation |-> ws, has_velocity_limits |-> hv, has_acceleration_limits |-> ha,
     vel_x_max |-> vx, vel_th_max |-> vth,
     acc_x_max |-> axmax, acc_x_min |-> axmin, acc_th_max |-> athmax]

\* bool Config::isValid() const
isValid(c) ==
    /\ ~(c.has_acceleration_limits /\ (Le(c.acc_x_max, Zero) \/ Ge(c.acc_x_min, Zero)))
    /\ ~(c.has_velocity_limits /\ (Le(c.vel_x_max, Zero) \/ Le(c.vel_th_max, Zero)))

\* VelocityLimiter::VelocityLimiter()
Constructed ==
    /\ wheel_separation = Zero
    /\ vel_x_max = Zero
    /\ vel_th_max = Zero
    /\ inertia = Zero
    /\ f_wheel_max = Zero
    /\ f_wheel_min = Zero
    /\ has_velocity_limits = FALSE
    /\ has_acceleration_limits = FALSE

\* what init stores for a configuration it accepts
Store(c) ==
    /\ wheel_separation' = c.wheel_separation
    /\ has_velocity_limits' = c.has_velocity_limits
    /\ has_acceleration_limits' = c.has_acceleration_limits
    /\ IF c.has_acceleration_limits
       THEN /\ f_wheel_max' = Mul(Mul(Half, mass), c.acc_x_max)
            /\ f_wheel_min' = Mul(Mul(Half, mass), c.acc_x_min)
            /\ inertia' = Div(Mul(c.wheel_separation, Mul(Mul(Half, mass), c.acc_x_max)),
                              c.acc_th_max)
       ELSE UNCHANGED <<f_wheel_max, f_wheel_min, inertia>>
    /\ IF c.has_velocity_limits
       THEN /\ vel_x_max' = c.vel_x_max
            /\ vel_th_max' = c.vel_th_max
       ELSE UNCHANGED <<vel_x_max, vel_th_max>>

\* init storing the flags before validating each family
initEarlyStore(c) ==
    /\ wheel_separation' = c.wheel_separation
    /\ has_velocity_limits' = c.has_velocity_limits
    /\ has_acceleration_limits' = c.has_acceleration_limits
    /\ IF c.has_acceleration_limits /\ (Le(c.acc_x_max, Zero) \/ Ge(c.acc_x_min, Zero))
       THEN init_ret' = "false"
            /\ UNCHANGED <<f_wheel_max, f_wheel_min, inertia, vel_x_max, vel_th_max>>
       ELSE /\ IF c.has_acceleration_limits
               THEN /\ f_wheel_max' = Mul(Mul(Half, mass), c.acc_x_max)
                    /\ f_wheel_min' = Mul(Mul(Half, mass), c.acc_x_min)
                    /\ inertia' = Div(Mul(c.wheel_separation,
                                          Mul(Mul(Half, mass), c.acc_x_max)), c.acc_th_max)
               ELSE UNCHANGED <<f_wheel_max, f_wheel_min, inertia>>
            /\ IF c.has_velocity_limits /\ (Le(c.vel_x_max, Zero) \/ Le(c.vel_th_max, Zero))
               THEN init_ret' = "false" /\ UNCHANGED <<vel_x_max, vel_th_max>>
               ELSE /\ init_ret' = "true"
                    /\ IF c.has_velocity_limits
                       THEN vel_x_max' = c.vel_x_max /\ vel_th_max' = c.vel_th_max
                       ELSE UNCHANGED <<vel_x_max, vel_th_max>>

\* bool init(const Config& config)
init(c) ==
    IF ~isValid(c)
    THEN init_ret' = "false" /\ UNCHANGED stored
    ELSE init_ret' = "true" /\ Store(c)

(***************************************************************************)
(* Inputs                                                                   *)
(***************************************************************************)
MaxCmd == 1

\* requested commands: forward speed in -MaxCmd .. MaxCmd, angular speed in -1 .. 1
Cmds == {Vector(F(x), F(th)) : x \in -MaxCmd..MaxCmd, th \in -1..1}

\* previous commands handed in by the caller
PrevCmds == {Vector(F(x), F(th)) : x \in -1..1, th \in -1..1}

\* cycle durations
Dts == {F(1), Half}

\* (vel_x_max, vel_th_max): a valid pair and one with a non-positive bound
VelLimits == {<<Half, Half>>, <<F(0), F(1)>>}

\* (acc_x_max, acc_x_min, acc_th_max) with acc_th_max > 0: braking stronger than
\* accelerating, braking weaker, and a bound of the wrong sign
AccLimits == {<<F(1), F(-2), F(2)>>, <<F(1), Neg(Half), F(1)>>, <<F(1), F(1), F(1)>>}

\* configurations with wheel_separation > 0 and acc_th_max > 0; the limits of a
\* disabled family, which init never reads, are left at zero
Configs ==
    {Config(ws, v[1], a[1], v[2], v[3], a[2], a[3], a[4]) :
        ws \in {F(1), F(2)},
        v \in {<<TRUE, l[1], l[2]>> : l \in VelLimits} \cup {<<FALSE, Zero, Zero>>},
        a \in {<<TRUE, l[1], l[2], l[3]>> : l \in AccLimits}
                \cup {<<FALSE, Zero, Zero, F(1)>>}}

DefaultConfig == Config(Zero, FALSE, FALSE, Zero, Zero, Zero, Zero, Zero)

NoCall ==
    /\ called = "none"
    /\ asserts_ok = TRUE
    /\ locals = NoLocals
    /\ ds_in = <<>>
    /\ ds_out = <<>>
    /\ cycles = 0

(***************************************************************************)
(* Spec: any sequence of init calls, and limit on one caller-chosen input  *)
(***************************************************************************)
Init ==
    /\ Constructed
    /\ config = DefaultConfig
    /\ init_ret = "none"
    /\ vel_cmd_req \in Cmds
    /\ vel_cmd_prev \in PrevCmds
    /\ dt \in Dts
    /\ vel_cmd = vel_cmd_req
    /\ NoCall

\* the caller runs init(c) and takes a fresh command object
InitCall(c) ==
    /\ init(c)
    /\ vel_cmd' = vel_cmd_req
    /\ called' = "none"
    /\ asserts_ok' = TRUE
    /\ locals' = NoLocals
    /\ UNCHANGED <<config, vel_cmd_req, vel_cmd_prev, dt, ds_in, ds_out, cycles>>

\* the caller runs limit(vel_cmd, vel_cmd_prev, dt) on its request
LimitCall ==
    \E r \in {limit(vel_cmd_req, vel_cmd_prev, dt)} :
        /\ vel_cmd' = r.cmd
        /\ called' = "limit"
        /\ asserts_ok' = r.ok
        /\ locals' = r.locals
        /\ UNCHANGED <<stored, config, init_ret, vel_cmd_req, vel_cmd_prev, dt,
                       ds_in, ds_out, cycles>>

Next ==
    \/ \E c \in Configs : InitCall(c)
    \/ LimitCall

Spec == Init /\ [][Next]_vars

(***************************************************************************)
(* Claims checked under Spec                                               *)
(***************************************************************************)
ZeroCmd == Vector(Zero, Zero)

\* the force a wheel would need exceeds the bound limitAcc would pick for it
StepExceedsBounds(v, prev, t) ==
    \E l \in {limitAccLocals(v, prev, t)} :
        Gt(Abs(l.f_left), l.f_left_mag) \/ Gt(Abs(l.f_right), l.f_right_mag)

\* C1: Zero passthrough.  Whatever the stored state, the previous command and dt,
\* limit called with the command (0, 0) leaves it exactly (0, 0), and acceleration
\* limiting is not run on it.
C1_ZeroPassthrough ==
    (called = "limit" /\ vel_cmd_req = ZeroCmd) => (vel_cmd = ZeroCmd /\ ~locals.ran)

\* C1 witness: a stop request passed through although acceleration limits are
\* enabled and the step from the previous command to zero exceeds the force bounds.
C1_Witness ==
    /\ called = "limit"
    /\ vel_cmd_req = ZeroCmd
    /\ vel_cmd = ZeroCmd
    /\ has_acceleration_limits
    /\ has_velocity_limits
    /\ StepExceedsBounds(ZeroCmd, vel_cmd_prev, dt)

\* the bound the claim puts on a wheel force f, given the wheel's previous speed
WheelForceOk(f, v_prev) ==
    IF Ge(Mul(f, v_prev), Zero)
    THEN Le(Abs(f), f_wheel_max)
    ELSE Le(Abs(f), Neg(f_wheel_min))

\* C3: Acceleration bound.  After acceleration limiting of a non-zero request, the
\* per-wheel forces implied by a = (output - previous) / dt are at most f_wheel_max
\* in magnitude for a wheel whose force is aligned with its previous speed
\* (f * v_prev >= 0) and at most -f_wheel_min for a wheel whose force opposes it.
C3_AccelerationBound ==
    (called = "limit" /\ locals.ran) =>
        \E a \in {Accel(vel_cmd, vel_cmd_prev, dt)} :
            /\ WheelForceOk(ForceLeft(a), WheelLeft(vel_cmd_prev))
            /\ WheelForceOk(ForceRight(a), WheelRight(vel_cmd_prev))

\* C3 witness: the requested force of a decelerating left wheel and of an
\* accelerating right wheel were both beyond their bounds, and limit cut them.
C3_Witness ==
    /\ called = "limit"
    /\ locals.ran
    /\ ~locals.left_acc
    /\ locals.right_acc
    /\ Gt(Abs(locals.f_left), locals.f_left_mag)
    /\ Gt(Abs(locals.f_right), locals.f_right_mag)
    /\ vel_cmd # locals.target

\* the request asks a moving wheel to turn the other way
Reverses(v_req, v_prev) == Lt(Mul(v_req, v_prev), Zero)

\* C6 as stated: a wheel at rest, or one the request asks to reverse, is treated as
\* accelerating and saturates at f_wheel_max.
C6_Original ==
    (called = "limit" /\ locals.ran) =>
        /\ (locals.v_left_prev = Zero \/ Reverses(WheelLeft(vel_cmd_req), locals.v_left_prev))
              => (locals.left_acc /\ locals.f_left_mag = f_wheel_max)
        /\ (locals.v_right_prev = Zero \/ Reverses(WheelRight(vel_cmd_req), locals.v_right_prev))
              => (locals.right_acc /\ locals.f_right_mag = f_wheel_max)

\* C6 amended: a wheel whose previous speed is zero is treated as accelerating and
\* saturates at f_wheel_max; a wheel with a non-zero previous speed, one asked to
\* reverse included, is treated as accelerating exactly when its requested force
\* does not oppose its previous speed, and saturates at -f_wheel_min otherwise.
C6_AtRestAccelerating ==
    (called = "limit" /\ locals.ran) =>
        /\ locals.v_left_prev = Zero
              => (locals.left_acc /\ locals.f_left_mag = f_wheel_max)
        /\ locals.v_right_prev = Zero
              => (locals.right_acc /\ locals.f_right_mag = f_wheel_max)
        /\ locals.left_acc <=> Ge(Mul(locals.f_left, locals.v_left_prev), Zero)
        /\ locals.right_acc <=> Ge(Mul(locals.f_right, locals.v_right_prev), Zero)
        /\ ~locals.left_acc => locals.f_left_mag = Neg(f_wheel_min)
        /\ ~locals.right_acc => locals.f_right_mag = Neg(f_wheel_min)

\* C6 witness: the left wheel was at rest, the right one was asked to reverse and
\* was treated as decelerating, and the force asked of the left wheel was cut.
C6_Witness ==
    /\ called = "limit"
    /\ locals.ran
    /\ locals.v_left_prev = Zero
    /\ Gt(Abs(locals.f_left), f_wheel_max)
    /\ locals.f_left_mag = f_wheel_max
    /\ Reverses(WheelRight(vel_cmd_req), locals.v_right_prev)
    /\ ~locals.right_acc
    /\ f_wheel_max # Neg(f_wheel_min)

\* an enabled family holds bounds of the sign clip asserts
StoredSignsOk ==
    /\ has_velocity_limits => (Gt(vel_x_max, Zero) /\ Gt(vel_th_max, Zero))
    /\ has_acceleration_limits => (Gt(f_wheel_max, Zero) /\ Lt(f_wheel_min, Zero))

\* C8: Clip sign assertions are never violated.  From a constructed limiter, after
\* any sequence of init calls (succeeding or failing, wheel_separation > 0 and
\* acc_th_max > 0), no limit call fails an assert of clip, and in every stored state
\* an enabled velocity family has vel_x_max > 0 and vel_th_max > 0 and an enabled
\* acceleration family has f_wheel_max > 0 and f_wheel_min < 0.
C8_ClipAssertsHold == asserts_ok /\ StoredSignsOk

\* C8 witness: the last init call failed, both families are still enabled from an
\* earlier one, and a limit call then clipped its command.
C8_Witness ==
    /\ init_ret = "false"
    /\ called = "limit"
    /\ has_velocity_limits
    /\ has_acceleration_limits
    /\ vel_cmd # vel_cmd_req
    /\ asserts_ok

(***************************************************************************)
(* SpecCfg: init on every kind of configuration, the argument recorded      *)
(***************************************************************************)
\* (vel_x_max, vel_th_max)
CfgVelLimits == {<<F(1), F(2)>>, <<F(0), F(1)>>}

\* (acc_x_max, acc_x_min, acc_th_max), acc_th_max of either sign or zero
CfgAccLimits == {<<F(2), F(-2), F(4)>>, <<F(2), F(-2), F(0)>>, <<F(2), F(-2), F(-1)>>,
                 <<F(1), F(1), F(1)>>}

\* configurations of every kind, wheel_separation of either sign or zero; the
\* limits of a disabled family, which init never reads, are left at zero
AllConfigs ==
    {Config(ws, v[1], a[1], v[2], v[3], a[2], a[3], a[4]) :
        ws \in {F(-1), F(0), Half, F(1)},
        v \in {<<TRUE, l[1], l[2]>> : l \in CfgVelLimits} \cup {<<FALSE, Zero, Zero>>},
        a \in {<<TRUE, l[1], l[2], l[3]>> : l \in CfgAccLimits}
                \cup {<<FALSE, Zero, Zero, Zero>>}}

InitCfg ==
    /\ Constructed
    /\ config = DefaultConfig
    /\ init_ret = "none"
    /\ vel_cmd_req = ZeroCmd
    /\ vel_cmd_prev = ZeroCmd
    /\ dt = F(1)
    /\ vel_cmd = ZeroCmd
    /\ NoCall

\* the caller runs init(c); c is kept for the claims to read
InitCallRecorded(c) ==
    /\ config' = c
    /\ init(c)
    /\ UNCHANGED <<vel_cmd_req, vel_cmd_prev, dt, vel_cmd, called, asserts_ok, locals,
                   ds_in, ds_out, cycles>>

NextCfg == \E c \in AllConfigs : InitCallRecorded(c)

SpecCfg == InitCfg /\ [][NextCfg]_vars

\* the validity invariant of the specification, wheel_separation included
SpecValid(c) ==
    /\ Gt(c.wheel_separation, Zero)
    /\ c.has_acceleration_limits => (Gt(c.acc_x_max, Zero) /\ Lt(c.acc_x_min, Zero))
    /\ c.has_velocity_limits => (Gt(c.vel_x_max, Zero) /\ Gt(c.vel_th_max, Zero))

\* C4: Invalid configurations are rejected by init.  A configuration with
\* wheel_separation <= 0, or an enabled acceleration family with acc_x_max <= 0 or
\* acc_x_min >= 0, or an enabled velocity family with vel_x_max <= 0 or
\* vel_th_max <= 0, makes init return false.
C4_InvalidRejected == init_ret = "true" => SpecValid(config)

\* C9: Derived inertia is well-defined.  Whenever init returns true with
\* acceleration limits enabled and wheel_separation > 0, the stored inertia was
\* computed without a division by zero and is strictly positive.
C9_InertiaWellDefined ==
    (init_ret = "true" /\ config.has_acceleration_limits
        /\ Gt(config.wheel_separation, Zero))
    => (IsFinite(inertia) /\ Gt(inertia, Zero))

(***************************************************************************)
(* SpecVel: limitVel on one caller-chosen command, as limit reaches it     *)
(***************************************************************************)
MaxVelCmd == 3

VelCmds == {Vector(F(x), F(th)) : x \in -MaxVelCmd..MaxVelCmd, th \in -MaxVelCmd..MaxVelCmd}

\* valid configurations with velocity limits enabled
VelConfigs ==
    {Config(ws, TRUE, FALSE, vx, vth, Zero, Zero, Zero) :
        ws \in {Half, F(1), F(2)}, vx \in {Half, F(1)}, vth \in {Half, F(1), F(3)}}

InitVel ==
    /\ Constructed
    /\ config = DefaultConfig
    /\ init_ret = "none"
    /\ vel_cmd_req \in VelCmds
    /\ vel_cmd_prev = ZeroCmd
    /\ dt = F(1)
    /\ vel_cmd = vel_cmd_req
    /\ NoCall

\* limit's velocity step: if (_has_velocity_limits) limitVel(vel_cmd)
LimitVelCall ==
    /\ has_velocity_limits
    /\ \E r \in {limitVel(vel_cmd_req)} :
           /\ vel_cmd' = r.cmd
           /\ asserts_ok' = r.ok
    /\ called' = "limitVel"
    /\ UNCHANGED <<stored, config, init_ret, vel_cmd_req, vel_cmd_prev, dt, locals,
                   ds_in, ds_out, cycles>>

NextVel ==
    \/ \E c \in VelConfigs : InitCall(c)
    \/ LimitVelCall

SpecVel == InitVel /\ [][NextVel]_vars

\* C2: Wheel-speed bound.  With wheel_separation S > 0, vel_x_max > 0 and
\* vel_th_max > 0, the command (x', th') left by limitVel satisfies
\* |x' - th' S/2| <= vel_x_max and |x' + th' S/2| <= vel_x_max.
C2_WheelSpeedBound ==
    called = "limitVel" =>
        /\ Le(Abs(WheelLeft(vel_cmd)), vel_x_max)
        /\ Le(Abs(WheelRight(vel_cmd)), vel_x_max)

\* C2 witness: the request broke the angular cap and, after the first downscale,
\* still a wheel-speed bound; limitVel left a wheel exactly at vel_x_max.
C2_Witness ==
    /\ called = "limitVel"
    /\ Gt(Abs(vel_cmd_req.th), vel_th_max)
    /\ Gt(Abs(WheelRight(limitVelCapsOnly(vel_cmd_req).cmd)), vel_x_max)
    /\ Abs(WheelRight(vel_cmd)) = vel_x_max
    /\ vel_cmd.x # Zero

(***************************************************************************)
(* SpecScale: downscaleBoth on caller-chosen values and bounds               *)
(***************************************************************************)
MaxScaleVal == 3

\* <<v1, v1_min, v1_max, v2, v2_min, v2_max>>, v1_min < 0 < v1_max, v2_min < 0 < v2_max
ScaleInputs ==
    {<<F(v1), F(-a), F(b), F(v2), F(-c), F(d)>> :
        v1 \in -MaxScaleVal..MaxScaleVal, v2 \in -MaxScaleVal..MaxScaleVal,
        a \in 1..2, b \in 1..2, c \in 1..2, d \in 1..2}

InitScale ==
    /\ Constructed
    /\ config = DefaultConfig
    /\ init_ret = "none"
    /\ vel_cmd_req = ZeroCmd
    /\ vel_cmd_prev = ZeroCmd
    /\ dt = F(1)
    /\ vel_cmd = ZeroCmd
    /\ called = "none"
    /\ asserts_ok = TRUE
    /\ locals = NoLocals
    /\ ds_in \in ScaleInputs
    /\ ds_out = <<>>
    /\ cycles = 0

DownscaleCall ==
    /\ called = "none"
    /\ \E r \in {downscaleBoth(ds_in[1], ds_in[2], ds_in[3], ds_in[4], ds_in[5], ds_in[6])} :
           /\ ds_out' = <<r.v1, r.v2>>
           /\ asserts_ok' = r.ok
    /\ called' = "downscaleBoth"
    /\ UNCHANGED <<stored, config, init_ret, vel_cmd_req, vel_cmd_prev, dt, vel_cmd,
                   locals, ds_in, cycles>>

NextScale == DownscaleCall

SpecScale == InitScale /\ [][NextScale]_vars

\* C7: Ratio preservation of the joint two-value downscale.  For bounds with
\* v1_min < 0 < v1_max and v2_min < 0 < v2_max, downscaleBoth returns (v1', v2')
\* with v1' * v2 = v1 * v2'.
C7_RatioPreserved ==
    called = "downscaleBoth" => Mul(ds_out[1], ds_in[4]) = Mul(ds_in[1], ds_out[2])

\* C7 witness: only the first clip fired: v1 was cut to a bound, v2 was scaled with
\* it to a non-zero value strictly inside its own bounds.
C7_Witness ==
    /\ called = "downscaleBoth"
    /\ Gt(ds_in[1], ds_in[3])
    /\ ds_out[1] = ds_in[3]
    /\ ds_out[2] # Zero
    /\ ds_out[2] # ds_in[4]
    /\ Lt(ds_out[2], ds_in[6])
    /\ Gt(ds_out[2], ds_in[5])

(***************************************************************************)
(* SpecLoop: init once, then cycles that feed each output back             *)
(***************************************************************************)
MaxCycles == 3

LoopCmds == {Vector(F(2), F(0)), Vector(F(0), F(3)), Vector(F(-2), F(2)),
             Vector(F(1), F(-1)), Vector(Half, Half), ZeroCmd}

\* valid configurations with both families enabled
LoopConfigs ==
    {Config(ws, TRUE, TRUE, F(1), vth, a[1], a[2], a[3]) :
        ws \in {F(1), F(2)}, vth \in {F(1), F(3)},
        a \in {<<F(1), F(-2), F(2)>>, <<F(2), Neg(Half), F(1)>>}}

InitLoop ==
    /\ Constructed
    /\ config = DefaultConfig
    /\ init_ret = "none"
    /\ vel_cmd_req = ZeroCmd
    /\ vel_cmd_prev = ZeroCmd
    /\ dt = F(1)
    /\ vel_cmd = ZeroCmd
    /\ NoCall

\* the caller initialises the limiter once
InitOnce(c) ==
    /\ init_ret = "none"
    /\ init(c)
    /\ UNCHANGED <<config, vel_cmd_req, vel_cmd_prev, dt, vel_cmd, called, asserts_ok,
                   locals, ds_in, ds_out, cycles>>

\* one control cycle: the last output is the previous command of limit(cmd, ., t)
CycleCall(cmd, t) ==
    /\ init_ret = "true"
    /\ cycles < MaxCycles
    /\ \E r \in {limit(cmd, vel_cmd, t)} :
           /\ vel_cmd' = r.cmd
           /\ asserts_ok' = r.ok
           /\ locals' = r.locals
    /\ vel_cmd_req' = cmd
    /\ vel_cmd_prev' = vel_cmd
    /\ dt' = t
    /\ called' = "limit"
    /\ cycles' = cycles + 1
    /\ UNCHANGED <<stored, config, init_ret, ds_in, ds_out>>

NextLoop ==
    \/ \E c \in LoopConfigs : InitOnce(c)
    \/ \E cmd \in LoopCmds, t \in Dts : CycleCall(cmd, t)

SpecLoop == InitLoop /\ [][NextLoop]_vars

InEnvelope(v) ==
    /\ Le(Abs(WheelLeft(v)), vel_x_max)
    /\ Le(Abs(WheelRight(v)), vel_x_max)
    /\ Le(Abs(v.th), vel_th_max)

\* C5: Closed-loop velocity envelope.  With both families enabled by a valid
\* configuration and out_0 = (0, 0), every output out_k of the cycles
\* out_k+1 = limit(cmd_k, out_k, dt_k) satisfies |x - th S/2| <= vel_x_max,
\* |x + th S/2| <= vel_x_max and |th| <= vel_th_max.
C5_ClosedLoopEnvelope ==
    (init_ret = "true" /\ has_velocity_limits /\ has_acceleration_limits)
        => InEnvelope(vel_cmd)

\* C5 witness: in a later cycle, from a non-zero previous output, velocity limiting
\* cut the request, acceleration limiting cut the step towards the result, and the
\* output has a wheel exactly at vel_x_max.
C5_Witness ==
    /\ cycles >= 2
    /\ locals.ran
    /\ vel_cmd_prev # ZeroCmd
    /\ locals.target # vel_cmd_req
    /\ vel_cmd # locals.target
    /\ Abs(WheelRight(vel_cmd)) = vel_x_max

(***************************************************************************)
(* SpecConv: init once, then cycles towards one constant target            *)
(***************************************************************************)
MaxTarget == 1

\* non-zero targets, both components in -MaxTarget .. MaxTarget
ConvTargets ==
    {Vector(F(x), F(th)) : x \in -MaxTarget..MaxTarget, th \in -MaxTarget..MaxTarget}
        \ {ZeroCmd}

\* valid configurations with acceleration limits enabled
ConvConfigs ==
    {Config(ws, hv, TRUE, F(2), F(1), a[1], a[2], a[3]) :
        ws \in {F(1), F(2)}, hv \in BOOLEAN,
        a \in {<<F(1), F(-2), F(2)>>, <<F(2), Neg(Half), F(1)>>}}

\* the target already satisfies the velocity caps of c
WithinCaps(v, c) ==
    /\ Le(Abs(Sub(v.x, Mul(Mul(v.th, c.wheel_separation), Half))), c.vel_x_max)
    /\ Le(Abs(Add(v.x, Mul(Mul(v.th, c.wheel_separation), Half))), c.vel_x_max)
    /\ Le(Abs(v.th), c.vel_th_max)

InitConv ==
    /\ Constructed
    /\ config = DefaultConfig
    /\ init_ret = "none"
    /\ vel_cmd_req \in ConvTargets
    /\ vel_cmd_prev \in PrevCmds
    /\ dt \in Dts
    /\ vel_cmd = vel_cmd_prev
    /\ NoCall

\* the caller initialises the limiter once, with caps the target satisfies
InitOnceCapped(c) ==
    /\ c.has_velocity_limits => WithinCaps(vel_cmd_req, c)
    /\ InitOnce(c)

\* one control cycle towards the constant target, dt constant
TargetCycle ==
    /\ init_ret = "true"
    /\ \E r \in {limit(vel_cmd_req, vel_cmd, dt)} :
           /\ vel_cmd' = r.cmd
           /\ asserts_ok' = r.ok
           /\ locals' = r.locals
    /\ vel_cmd_prev' = vel_cmd
    /\ called' = "limit"
    /\ UNCHANGED <<stored, config, init_ret, vel_cmd_req, dt, ds_in, ds_out, cycles>>

NextConv ==
    \/ \E c \in ConvConfigs : InitOnceCapped(c)
    \/ TargetCycle

SpecConv == InitConv /\ [][NextConv]_vars /\ WF_vars(NextConv)

Between(a, x, b) == (Le(a, x) /\ Le(x, b)) \/ (Le(b, x) /\ Le(x, a))

\* o lies on the segment from p to q
OnSegment(p, o, q) ==
    /\ Mul(Sub(o.x, p.x), Sub(q.th, p.th)) = Mul(Sub(o.th, p.th), Sub(q.x, p.x))
    /\ Between(p.x, o.x, q.x)
    /\ Between(p.th, o.th, q.th)

NoOvershoot == called = "limit" => OnSegment(vel_cmd_prev, vel_cmd, vel_cmd_req)

AtTarget == vel_cmd = vel_cmd_req

\* C10: Closed-loop convergence.  With acceleration limits enabled by a valid
\* configuration, a constant non-zero target T within the velocity caps, a constant
\* dt and any initial previous command, the cycles p_k+1 = limit(T, p_k, dt) reach T
\* and then stay at T, and every output lies on the segment between p_k and T.
C10_Convergence == []NoOvershoot /\ <>[]AtTarget

\* C10 witness: the loop reached the target in a cycle whose step was not cut, after
\* a cycle whose step was.
C10_Witness ==
    /\ called = "limit"
    /\ AtTarget
    /\ vel_cmd_prev # vel_cmd
    /\ vel_cmd_prev \notin PrevCmds
    /\ has_velocity_limits

====
